---- MODULE Spec2Model ----
(***************************************************************************)
(* EIA/CEA-608 caption decoder (src/eia608.go): the per-unit Decode step,  *)
(* the control-command state machine, the front/back frame buffers with    *)
(* roll-up scrolling, rendering (String) and the state snapshot; and the   *)
(* CEA-708 envelope parser (src/cea708.go) that extracts the 608 units.    *)
(* Go's uint values are represented by integers; a value that wrapped      *)
(* below zero (rollups - 1 with rollups = 0) is represented by its         *)
(* negative residue and treated as larger than every index (see ULess).   *)
(***************************************************************************)
EXTENDS Integers, Sequences, FiniteSets, TLC

VARIABLES underline, style, row, col, ccData, front, back, active,
          unit, pw, ready, panicked, steps, repeat, ru, hist, pending,
          env, out

decoder == <<underline, style, row, col, ccData, front, back, active>>
vars == <<underline, style, row, col, ccData, front, back, active,
          unit, pw, ready, panicked, steps, repeat, ru, hist, pending,
          env, out>>

\* ------------------------------------------------------------------ sizes
Rows == 15
Cols == 32

\* ------------------------------------------------------------- bit helpers
\* x & y bit by bit.
RECURSIVE BitAndRec(_, _)
BitAndRec(a, b) ==
    IF a = 0 \/ b = 0 THEN 0
    ELSE (a % 2) * (b % 2) + 2 * BitAndRec(a \div 2, b \div 2)

\* x & y for two 4-bit values, tabulated once.
NibbleAnd == [x \in 0 .. 15 |-> [y \in 0 .. 15 |-> BitAndRec(x, y)]]

\* a & b for two 16-bit values, four bits at a time.
BitAnd(a, b) ==
    NibbleAnd[a % 16][b % 16]
        + 16 * NibbleAnd[(a \div 16) % 16][(b \div 16) % 16]
        + 256 * NibbleAnd[(a \div 256) % 16][(b \div 256) % 16]
        + 4096 * NibbleAnd[(a \div 4096) % 16][(b \div 4096) % 16]

Bit(v, k) == (v \div (2 ^ k)) % 2

Hi(cc) == cc \div 256
Lo(cc) == cc % 256

\* ------------------------------------------------------------------ parity
\* table[i] = (i & 0x7F) | (0x80 ^ bx(i,1) ^ ... ^ bx(i,7)); bx(i,x) moves
\* bit 7-x of i to bit 7, so bit 7 is 1 xor the seven low bits of i.
\* Faulty variant: the parity bit is the xor of the seven low bits, without
\* the 0x80 term.
parityTable_Even(i) ==
    (i % 128) + 128 * ((Bit(i, 6) + Bit(i, 5) + Bit(i, 4) + Bit(i, 3)
                          + Bit(i, 2) + Bit(i, 1) + Bit(i, 0)) % 2)

parityTable(i) ==
    (i % 128) + 128 * ((1 + Bit(i, 6) + Bit(i, 5) + Bit(i, 4) + Bit(i, 3)
                          + Bit(i, 2) + Bit(i, 1) + Bit(i, 0)) % 2)

parityByte(b) == parityTable(b % 128)

parityWord(cc) == parityTable(Hi(cc) % 128) * 256 + parityTable(Lo(cc) % 128)

\* ccData &= 0x7F7F
StripParity(cc) == (Hi(cc) % 128) * 256 + (Lo(cc) % 128)

\* ------------------------------------------------------------ control codes
eia608_control_resume_caption_loading == 5152
eia608_control_backspace == 5153
eia608_control_alarm_off == 5154
eia608_control_alarm_on == 5155
eia608_control_delete_to_end_of_row == 5156
eia608_control_roll_up_2 == 5157
eia608_control_roll_up_3 == 5158
eia608_control_roll_up_4 == 5159
eia608_control_resume_direct_captioning == 5161
eia608_control_text_restart == 5162
eia608_control_text_resume_text_display == 5163
eia608_control_erase_display_memory == 5164
eia608_control_carriage_return == 5165
eia608_control_erase_non_displayed_memory == 5166
eia608_control_end_of_caption == 5167
eia608_tab_offset_1 == 5921
eia608_tab_offset_2 == 5922
eia608_tab_offset_3 == 5923

eia608_style_white == 0

\* -------------------------------------------------------------- classifiers
\* 0x1420 == (0x7670 & cc) || 0x1720 == (0x7770 & cc)
isControl(cc) == BitAnd(30320, cc) = 5152 \/ BitAnd(30576, cc) = 5920

\* 0x1040 == (0x7040 & cc)
isPreamble(cc) == BitAnd(28736, cc) = 4160

\* 0x1120 == (0x7770 & cc)
isMidRowChange(cc) == BitAnd(30576, cc) = 4384

\* Faulty variant: bit 12 counts as well (mask 0x7000).
isBasicNA_Bit12(cc) == BitAnd(28672, cc) # 0

\* 0x0000 != (0x6000 & cc)
isBasicNA(cc) == BitAnd(24576, cc) # 0

\* 0x1130 == (0x7770 & cc)
isSpecialNA(cc) == BitAnd(30576, cc) = 4400

\* 0x1220 == (0x7660 & cc)
isWesternEu(cc) == BitAnd(30304, cc) = 4640

\* ------------------------------------------------------------------ tables
\* The glyphs as code points (the Go table holds runes).
charMap ==
    << 32, 33, 34, 35, 36, 37, 38, 8217, 40, 41, 225, 43, 44, 45, 46, 47,
       48, 49, 50, 51, 52, 53, 54, 55, 56, 57, 58, 59, 60, 61, 62, 63, 64,
       65, 66, 67, 68, 69, 70, 71, 72, 73, 74, 75, 76, 77, 78, 79, 80,
       81, 82, 83, 84, 85, 86, 87, 88, 89, 90, 91, 233, 93, 237, 243, 250,
       97, 98, 99, 100, 101, 102, 103, 104, 105, 106, 107, 108, 109, 110,
       111, 112, 113, 114, 115, 116, 117, 118, 119, 120, 121, 122, 231,
       247, 209, 241, 9608,
       174, 176, 189, 191, 8482, 162, 163, 9834, 224, 32, 232, 226, 234,
       238, 244, 251,
       193, 201, 211, 218, 220, 252, 8216, 161, 42, 39, 8212, 169, 8480,
       8226, 8220, 8221,
       192, 194, 199, 200, 202, 203, 235, 206, 207, 239, 212, 217, 249,
       219, 171, 187,
       195, 227, 205, 204, 236, 210, 242, 213, 245, 123, 125, 92, 94, 95,
       124, 126,
       196, 228, 214, 246, 223, 165, 164, 166, 197, 229, 216, 248, 9484,
       9488, 9492, 9496 >>

\* The replacement glyph U+FFFD, used for an index outside charMap.
ReplacementChar == 65533

\* Indexed from 0 in the source: rowMap[i] is RowMapSeq[i + 1].
RowMapSeq == <<4, Rows, 14, 13, 12, 11, 3, 2, 1, 0, 10, 9, 8, 7, 6, 5>>
rowMap(i) == RowMapSeq[i + 1]

\* ------------------------------------------------------------ frame buffer
\* frameBufferChar{}: the zero value of a cell.
EmptyChar == [char |-> 0, style |-> 0, underline |-> FALSE]
EmptyRow == [c \in 0 .. Cols - 1 |-> EmptyChar]
EmptyData == [r \in 0 .. Rows - 1 |-> EmptyRow]
ZeroState == [Rollup |-> 0, Row |-> 0, Col |-> 0]
ZeroBuffer == [state |-> ZeroState, data |-> EmptyData]

\* Faulty variant: the display state is reset with the cells.
clear_ResetsState(b) == [b EXCEPT !.data = EmptyData, !.state = ZeroState]

clear(b) == [b EXCEPT !.data = EmptyData]

clearState(b) == [clear(b) EXCEPT !.state.Row = 0, !.state.Col = 0]

\* getChar returns nil exactly when the position is outside the grid.
InGrid(r, c) == r >= 0 /\ r < Rows /\ c >= 0 /\ c < Cols

setChar(b, r, c, ch) ==
    IF InGrid(r, c) /\ b.data[r][c] # ch
    THEN [b EXCEPT !.data[r][c] = ch]
    ELSE b

\* Unsigned comparison a < b of two uint values given by their residues.
ULess(a, b) ==
    IF a >= 0 /\ b >= 0 THEN a < b
    ELSE IF a >= 0 THEN TRUE
    ELSE IF b >= 0 THEN FALSE
    ELSE a < b

\* The loop of carriageReturn from iteration i on: the rows after it and
\* whether an index left the array (Go panics: index out of range).
RECURSIVE crLoop(_, _, _, _)
crLoop(data, r, n, i) ==
    IF ~ULess(i, n) THEN [data |-> data, panic |-> FALSE]
    ELSE LET idx == r + n - i
         IN IF idx < 0 \/ idx >= Rows \/ idx - 1 < 0 \/ idx - 1 >= Rows
            THEN [data |-> data, panic |-> TRUE]
            ELSE crLoop([data EXCEPT ![idx] = data[idx - 1]], r, n, i + 1)

\* Faulty variant: the row is cleared but the rows above it are not shifted.
carriageReturn_NoShift(b, r) ==
    IF r + b.state.Rollup >= Rows + 1 \/ r + b.state.Rollup <= 0
    THEN [b |-> b, panic |-> FALSE]
    ELSE [b |-> [b EXCEPT !.data[r] = EmptyRow], panic |-> FALSE]

carriageReturn(b, r) ==
    LET rollups == b.state.Rollup
    IN IF r + rollups >= Rows + 1 \/ r + rollups <= 0
       THEN [b |-> b, panic |-> FALSE]
       ELSE LET n == rollups - 1
                l == crLoop(b.data, r, n, 0)
            IN IF l.panic
               THEN [b |-> [b EXCEPT !.data = l.data], panic |-> TRUE]
               ELSE IF r >= Rows
               THEN [b |-> [b EXCEPT !.data = l.data], panic |-> TRUE]
               ELSE [b |-> [b EXCEPT !.data = [l.data EXCEPT ![r] = EmptyRow]],
                     panic |-> FALSE]

\* The string built for one row: its non-empty cells (char != 0) in column
\* order.
rowString(rw) ==
    IF rw = EmptyRow THEN <<>>
    ELSE SelectSeq([k \in 1 .. Cols |-> rw[k - 1].char], LAMBDA ch : ch # 0)

\* s after the loop over the rows: the non-empty row strings, row 0 first.
scanRows(data) ==
    SelectSeq([k \in 1 .. Rows |-> rowString(data[k - 1])],
              LAMBDA sb : Len(sb) > 0)

\* Faulty variant: the list is left in scan order.
Reverse_Not(s) == s

Reverse(s) == [i \in 1 .. Len(s) |-> s[Len(s) + 1 - i]]

LineBreak == 10

\* strings.Join(s, "\n") over code points.
RECURSIVE Join(_)
Join(s) ==
    IF Len(s) = 0 THEN <<>>
    ELSE IF Len(s) = 1 THEN s[1]
    ELSE s[1] \o <<LineBreak>> \o Join(Tail(s))

String(b) == Join(Reverse(scanRows(b.data)))

\* ------------------------------------------------------------------ decoder
\* The EIA608Frame as one value: the fields of the struct, with the pointer
\* f.active as a selector ("nil", "front" or "back").
Frame ==
    [underline |-> underline, style |-> style, row |-> row, col |-> col,
     ccData |-> ccData, front |-> front, back |-> back, active |-> active]

\* *f.active, and f after an assignment through f.active.
ActiveBuf(f) == IF f.active = "front" THEN f.front ELSE f.back

WithActive(f, b) ==
    IF f.active = "front" THEN [f EXCEPT !.front = b] ELSE [f EXCEPT !.back = b]

\* The result of a handler: the frame after it, the readiness flag it
\* returns, and whether it aborted (a Go run-time panic).
Ret(f, rdy) == [f |-> f, ready |-> rdy, panic |-> FALSE]

\* Faulty variant: the cell is emptied before the cursor moves.
backspace_ClearFirst(f) ==
    LET c == IF f.col > 0 THEN f.col - 1 ELSE f.col
    IN WithActive([f EXCEPT !.col = c],
                  setChar(ActiveBuf(f), f.row, f.col, EmptyChar))

backspace(f) ==
    LET c == IF f.col > 0 THEN f.col - 1 ELSE f.col
    IN WithActive([f EXCEPT !.col = c],
                  setChar(ActiveBuf(f), f.row, c, EmptyChar))

\* Faulty variant: the depth always goes to the front buffer.
selectMode_DepthInFront(f, which, depth) ==
    [f EXCEPT !.active = which, !.front.state.Rollup = depth]

\* Faulty variant: the depth is stored but the buffer is not selected.
selectMode_NoSelect(f, which, depth) ==
    IF which = "front" THEN [f EXCEPT !.front.state.Rollup = depth]
    ELSE [f EXCEPT !.back.state.Rollup = depth]

\* f.active = &f.front (or &f.back); f.active.state.Rollup = depth
selectMode(f, which, depth) ==
    LET g == [f EXCEPT !.active = which]
    IN WithActive(g, [ActiveBuf(g) EXCEPT !.state.Rollup = depth])

\* Faulty variant: the loop starts one column right of the cursor.
deleteToEndOfRow_AfterCursor(b, r, i) ==
    IF r >= 0 /\ r < Rows
    THEN [b EXCEPT !.data[r] = [c \in 0 .. Cols - 1 |->
                                   IF c > i THEN EmptyChar ELSE b.data[r][c]]]
    ELSE b

\* for i := f.col; i < Cols; i++ { f.active.setChar(f.row, i, frameBufferChar{}) }
\* Every setChar of the loop is on row r: outside the grid none writes, on
\* it the cells of columns i..Cols-1 end up empty.
deleteToEndOfRow(b, r, i) ==
    IF r >= 0 /\ r < Rows
    THEN [b EXCEPT !.data[r] = [c \in 0 .. Cols - 1 |->
                                   IF c >= i THEN EmptyChar ELSE b.data[r][c]]]
    ELSE b

\* Faulty variant: the move is not mirrored into the display state.
tabOffset_CursorOnly(f, n) == [f EXCEPT !.col = f.col + n]

\* f.col += n; f.active.state.Col += n
tabOffset(f, n) ==
    WithActive([f EXCEPT !.col = f.col + n],
               [ActiveBuf(f) EXCEPT !.state.Col = ActiveBuf(f).state.Col + n])

\* Faulty variant: clearState applied to the buffer that became front.
endOfCaption_ClearsFront(f) ==
    [f EXCEPT !.front = clearState(f.back), !.back = f.front,
              !.col = 0, !.row = 0, !.active = "back"]

\* f.front, f.back = f.back, f.front; f.back.clearState();
\* f.col, f.row = 0, 0; f.active = &f.back
endOfCaption(f) ==
    [f EXCEPT !.front = f.back, !.back = clearState(f.front),
              !.col = 0, !.row = 0, !.active = "back"]

\* The command of a control unit: the channel bits masked off
\* (0x167F & cc when bit 0x0200 is clear, else 0x177F & cc).
controlCmd(cc) ==
    IF BitAnd(512, cc) = 0 THEN BitAnd(5759, cc) ELSE BitAnd(6015, cc)

parseControl(f, cc) ==
    LET cmd == controlCmd(cc)
    IN CASE cmd = eia608_control_resume_direct_captioning ->
              Ret(selectMode(f, "front", 1), FALSE)
         [] cmd = eia608_control_erase_display_memory ->
              Ret([f EXCEPT !.front = clear(f.front)], TRUE)
         [] cmd = eia608_control_roll_up_2 ->
              Ret(selectMode(f, "front", 2), FALSE)
         [] cmd = eia608_control_roll_up_3 ->
              Ret(selectMode(f, "front", 3), FALSE)
         [] cmd = eia608_control_roll_up_4 ->
              Ret(selectMode(f, "front", 4), FALSE)
         [] cmd = eia608_control_carriage_return ->
              IF f.active = "nil" THEN Ret(f, FALSE)
              ELSE LET g == [f EXCEPT !.col = 0]
                       cr == carriageReturn(ActiveBuf(g), g.row)
                   IN IF cr.panic
                      THEN [f |-> WithActive(g, cr.b), ready |-> FALSE,
                            panic |-> TRUE]
                      ELSE Ret(WithActive(g, [cr.b EXCEPT !.state.Col = 0]),
                               FALSE)
         [] cmd = eia608_control_backspace ->
              IF f.active = "nil" THEN Ret(f, FALSE)
              ELSE Ret(backspace(f), FALSE)
         [] cmd = eia608_control_delete_to_end_of_row ->
              IF f.active = "nil" THEN Ret(f, FALSE)
              ELSE Ret(WithActive(f, deleteToEndOfRow(ActiveBuf(f), f.row,
                                                      f.col)), FALSE)
         [] cmd = eia608_control_resume_caption_loading ->
              Ret(selectMode(f, "back", 0), FALSE)
         [] cmd = eia608_control_erase_non_displayed_memory ->
              Ret([f EXCEPT !.back = clear(f.back)], FALSE)
         [] cmd = eia608_control_end_of_caption ->
              Ret(endOfCaption(f), TRUE)
         [] cmd = eia608_tab_offset_1 ->
              IF f.active = "nil" THEN Ret(f, FALSE)
              ELSE Ret(tabOffset(f, 1), FALSE)
         [] cmd = eia608_tab_offset_2 ->
              IF f.active = "nil" THEN Ret(f, FALSE)
              ELSE Ret(tabOffset(f, 2), FALSE)
         [] cmd = eia608_tab_offset_3 ->
              IF f.active = "nil" THEN Ret(f, FALSE)
              ELSE Ret(tabOffset(f, 3), FALSE)
         [] OTHER -> Ret(f, FALSE)

\* Faulty variant: the low bit of the row field (0x0020) is left out.
preambleRow_NoLowBit(cc) == rowMap(BitAnd(1792, cc) \div 128)

\* rowMap[((0x0700 & cc) >> 7) | ((0x0020 & cc) >> 5)]
preambleRow(cc) == rowMap(BitAnd(1792, cc) \div 128 + BitAnd(32, cc) \div 32)

parsePreamble(f, cc) ==
    LET r == preambleRow(cc)
        ul == BitAnd(1, cc) = 1
        field == BitAnd(14, cc) \div 2
        indent == BitAnd(16, cc) # 0
        c == IF indent THEN 4 * field ELSE 0
        st == IF indent THEN eia608_style_white ELSE field
        g == [f EXCEPT !.row = r, !.underline = ul, !.col = c, !.style = st]
    IN WithActive(g, [ActiveBuf(g) EXCEPT !.state.Row = r, !.state.Col = c])

\* Faulty variant: the underline bit is not taken over.
parseMidRowChange_StyleOnly(f, cc) ==
    IF BitAnd(30576, cc) = 4384
    THEN [f EXCEPT !.style = BitAnd(14, cc) \div 2]
    ELSE f

parseMidRowChange(f, cc) ==
    IF BitAnd(30576, cc) = 4384
    THEN [f EXCEPT !.style = BitAnd(14, cc) \div 2,
                   !.underline = (BitAnd(1, cc) = 1)]
    ELSE f

\* Faulty variant: the character goes to the displayed buffer whatever the
\* active buffer is.
writeChar_Front(f, i) ==
    [f EXCEPT !.front = setChar(f.front, f.row, f.col,
                                [char |-> IF i < Len(charMap)
                                          THEN charMap[i + 1]
                                          ELSE ReplacementChar,
                                 style |-> f.style,
                                 underline |-> f.underline]),
              !.col = IF f.col < Cols THEN f.col + 1 ELSE f.col]

\* The boolean writeChar returns is dropped by every caller.
writeChar(f, i) ==
    LET ch == IF i < Len(charMap) THEN charMap[i + 1] ELSE ReplacementChar
        b == setChar(ActiveBuf(f), f.row, f.col,
                     [char |-> ch, style |-> f.style,
                      underline |-> f.underline])
    IN [WithActive(f, b) EXCEPT !.col = IF f.col < Cols THEN f.col + 1
                                        ELSE f.col]

parseText(f, cc) ==
    IF isBasicNA(cc)
    THEN LET g == writeChar(f, Hi(cc) - 32)
             lo == Lo(cc)
         IN IF 32 <= lo /\ 128 > lo THEN writeChar(g, lo - 32) ELSE g
    ELSE LET c2 == BitAnd(63487, cc)
         IN IF isSpecialNA(c2) THEN writeChar(f, c2 - 4400 + 96)
            ELSE IF 4640 <= c2 /\ 4672 > c2
            THEN writeChar(backspace(f), c2 - 4640 + 112)
            ELSE IF 4896 <= c2 /\ 4928 > c2
            THEN writeChar(backspace(f), c2 - 4896 + 144)
            ELSE f

\* Faulty variant: the parity check never rejects.
parityError_Never(raw) == FALSE

\* parityWord(ccData) != ccData
parityError(raw) == parityWord(raw) # raw

\* ccData == 0 after the parity bits are stripped
isPadding(cc) == cc = 0

\* Faulty variant: only control units are de-duplicated.
isDuplicate_ControlOnly(f, cc) == isControl(cc) /\ cc = f.ccData

\* (isSpecialNA(ccData) || isControl(ccData)) && ccData == f.ccData
isDuplicate(f, cc) == (isSpecialNA(cc) \/ isControl(cc)) /\ cc = f.ccData

\* Faulty variant: no test for an unset active buffer; the handlers then
\* dereference the nil pointer and the call aborts.
dispatch_NoNilCheck(f, cc) ==
    LET g == [f EXCEPT !.ccData = cc]
    IN IF isControl(cc) THEN parseControl(g, cc)
       ELSE IF g.active = "nil" /\ ~isPreamble(cc) /\ ~isMidRowChange(cc)
               /\ ~isBasicNA(cc) /\ ~isSpecialNA(cc) /\ ~isWesternEu(cc)
       THEN Ret(g, FALSE)
       ELSE IF g.active = "nil" /\ ~isMidRowChange(cc)
       THEN [f |-> g, ready |-> FALSE, panic |-> TRUE]
       ELSE IF isPreamble(cc) THEN Ret(parsePreamble(g, cc), FALSE)
       ELSE IF isMidRowChange(cc) THEN Ret(parseMidRowChange(g, cc), FALSE)
       ELSE IF isBasicNA(cc) \/ isSpecialNA(cc) \/ isWesternEu(cc)
       THEN LET h == parseText(g, cc)
            IN Ret(h, ActiveBuf(h).state.Rollup > 0)
       ELSE Ret(g, FALSE)

\* Decode from the point where the unit is recorded as last seen.
dispatch(f, cc) ==
    LET g == [f EXCEPT !.ccData = cc]
    IN IF isControl(cc) THEN parseControl(g, cc)
       ELSE IF g.active = "nil" THEN Ret(g, FALSE)
       ELSE IF isPreamble(cc) THEN Ret(parsePreamble(g, cc), FALSE)
       ELSE IF isMidRowChange(cc) THEN Ret(parseMidRowChange(g, cc), FALSE)
       ELSE IF isBasicNA(cc) \/ isSpecialNA(cc) \/ isWesternEu(cc)
       THEN LET h == parseText(g, cc)
            IN Ret(h, ActiveBuf(h).state.Rollup > 0)
       ELSE Ret(g, FALSE)

\* Faulty variant: the unit is recorded as last seen before the checks.
DecodeResult_RecordsDropped(f, raw) ==
    LET cc == StripParity(raw)
        g == [f EXCEPT !.ccData = cc]
    IN IF parityError(raw) THEN Ret(g, FALSE)
       ELSE IF isPadding(cc) THEN Ret(g, FALSE)
       ELSE IF isDuplicate(f, cc) THEN Ret(g, FALSE)
       ELSE dispatch(f, cc)

DecodeResult(f, raw) ==
    IF parityError(raw) THEN Ret(f, FALSE)
    ELSE LET cc == StripParity(raw)
         IN IF isPadding(cc) THEN Ret(f, FALSE)
            ELSE IF isDuplicate(f, cc) THEN Ret(f, FALSE)
            ELSE dispatch(f, cc)

\* ---------------------------------------------------------------- snapshot
Mode608_Unknown == "Unknown"
Mode608_PopOn == "PopOn"
Mode608_PaintOn == "PaintOn"

\* Faulty variant: no test for an unset active buffer.
StateSnapshot_NoNilCheck(f) ==
    [Mode |-> IF f.front.state.Rollup > 0 THEN Mode608_PaintOn
              ELSE Mode608_PopOn,
     Rollup |-> f.front.state.Rollup,
     Row |-> Rows - f.front.state.Row,
     Col |-> f.front.state.Col,
     Content |-> String(f.front)]

\* Faulty variant: the snapshot reads the active buffer, not the front one.
StateSnapshot_FromActive(f) ==
    IF f.active = "nil"
    THEN [Mode |-> Mode608_Unknown, Rollup |-> 0, Row |-> 0, Col |-> 0,
          Content |-> <<>>]
    ELSE [Mode |-> IF ActiveBuf(f).state.Rollup > 0 THEN Mode608_PaintOn
                   ELSE Mode608_PopOn,
          Rollup |-> ActiveBuf(f).state.Rollup,
          Row |-> Rows - ActiveBuf(f).state.Row,
          Col |-> ActiveBuf(f).state.Col,
          Content |-> String(ActiveBuf(f))]

StateSnapshot(f) ==
    IF f.active = "nil"
    THEN [Mode |-> Mode608_Unknown, Rollup |-> 0, Row |-> 0, Col |-> 0,
          Content |-> <<>>]
    ELSE LET frameBuffer == f.front
         IN [Mode |-> IF frameBuffer.state.Rollup > 0 THEN Mode608_PaintOn
                      ELSE Mode608_PopOn,
             Rollup |-> frameBuffer.state.Rollup,
             Row |-> Rows - frameBuffer.state.Row,
             Col |-> frameBuffer.state.Col,
             Content |-> String(frameBuffer)]


\* ------------------------------------------------- CEA-708 envelope
\* src/cea708.go. A byte slice is a sequence of values 0..255; data[i] of
\* the source is data[i + 1] here.
Provider_DirectTV == 47
Provider_ATSC == 49
ntsc_cc_field_1 == 0

At(data, i) == data[i + 1]

\* binary.BigEndian.Uint16(data[i : i+2])
Uint16BE(data, i) == At(data, i) * 256 + At(data, i + 1)

\* What a parser returns: the user data (or nothing) and the error (or nil).
NoErr == "nil"
ParseErr(msg) == [ud |-> <<>>, err |-> msg]

\* One pass of the loop body: the entry read from d[i : i+3].
ccEntry(d, i) ==
    [marker_bits |-> At(d, i) \div 8,
     cc_valid |-> BitAnd(At(d, i), 64) = 64,
     cc_type |-> BitAnd(At(d, i), 3),
     cc_data |-> Uint16BE(d, i + 1)]

\* for i := 2; i+2 < len(data) && byte(len(ud.cc_data)) < ud.cc_count; i += 3
RECURSIVE ccLoop(_, _, _, _)
ccLoop(d, cc_count, i, acc) ==
    IF i + 2 < Len(d) /\ Len(acc) < cc_count
    THEN ccLoop(d, cc_count, i + 3, Append(acc, ccEntry(d, i)))
    ELSE acc

\* Faulty variant: the entries read are returned without the count check.
parseCEA708UserData_NoCountCheck(data) ==
    IF Len(data) <= 2 THEN ParseErr("insufficient cea708 user data")
    ELSE [ud |-> [process_em_data_flag |-> BitAnd(At(data, 0), 128) = 128,
                  process_cc_data_flag |-> BitAnd(At(data, 0), 64) = 64,
                  additional_data_flag |-> BitAnd(At(data, 0), 32) = 32,
                  cc_count |-> BitAnd(At(data, 0), 31),
                  em_data |-> At(data, 1),
                  cc_data |-> ccLoop(data, BitAnd(At(data, 0), 31), 2, <<>>)],
          err |-> NoErr]

parseCEA708UserData(data) ==
    IF Len(data) <= 2 THEN ParseErr("insufficient cea708 user data")
    ELSE LET cc_count == BitAnd(At(data, 0), 31)
             cc_data == ccLoop(data, cc_count, 2, <<>>)
         IN IF Len(cc_data) # cc_count THEN ParseErr("mismatched cc count")
            ELSE [ud |-> [process_em_data_flag |->
                              BitAnd(At(data, 0), 128) = 128,
                          process_cc_data_flag |->
                              BitAnd(At(data, 0), 64) = 64,
                          additional_data_flag |->
                              BitAnd(At(data, 0), 32) = 32,
                          cc_count |-> cc_count,
                          em_data |-> At(data, 1),
                          cc_data |-> cc_data],
                  err |-> NoErr]

\* i1..i5 are the values of i after each of the five places that advance
\* it; code is c.user_data_type_code, 0 unless a provider branch sets it.
parseCEA708(data) ==
    LET sz == Len(data)
    IN IF sz < 4
       THEN ParseErr("insuffucient data to detect payload size")
       ELSE
         LET country == At(data, 0)
             i1 == IF country = 255 THEN 2 ELSE 1
             provider == Uint16BE(data, i1)
             i2 == i1 + 2
             i3 == IF provider = Provider_ATSC THEN i2 + 4 ELSE i2
             i4 == IF provider = 0 /\ country = 0 THEN i3 + 1 ELSE i3
             typed == provider = Provider_ATSC \/ provider = Provider_DirectTV
             code == IF typed THEN At(data, i4) ELSE 0
             i5 == IF typed THEN i4 + 1 ELSE i4
         IN IF provider = Provider_ATSC /\ sz - i2 < 4
            THEN ParseErr("insufficient data to read user identifier")
            ELSE IF typed /\ sz - i4 <= 1
            THEN ParseErr("insufficient data to read provider type code")
            ELSE IF 3 = code /\ sz - i5 >= 2
            THEN parseCEA708UserData(SubSeq(data, i5 + 1, sz))
            ELSE ParseErr("trailing user data")

\* Faulty variant: the valid flag is not looked at.
isPrintable_TypeOnly(cd) == cd.cc_type = ntsc_cc_field_1

isPrintable(cd) == cd.cc_valid /\ cd.cc_type = ntsc_cc_field_1

printableCCData(ud) ==
    LET kept == SelectSeq(ud.cc_data, isPrintable)
    IN [k \in 1 .. Len(kept) |-> kept[k].cc_data]

\* The pair CEA708ToCCData returns; a nil slice has no elements.
CEA708ToCCData(data) ==
    LET r == parseCEA708(data)
    IN IF r.err # NoErr THEN [units |-> <<>>, err |-> r.err]
       ELSE [units |-> printableCCData(r.ud), err |-> NoErr]

\* ------------------------------------------------- roll-up history (ghost)
\* What was fed since roll-up was last selected on an empty front buffer:
\* the depth k, the base row, the completed lines and the line in progress
\* (as the glyphs the text units stand for; a Western European unit
\* replaces the glyph before it), the column the next glyph goes to, and
\* whether every glyph so far fell inside the row. on is FALSE when no
\* such selection is in force: anything but text and carriage returns ends
\* it.
RuOff ==
    [on |-> FALSE, k |-> 0, base |-> 0, pos |-> 0, fit |-> TRUE,
     lines |-> <<>>, cur |-> <<>>]

Glyph(i) == IF i < Len(charMap) THEN charMap[i + 1] ELSE ReplacementChar

\* The glyphs of a basic text unit: one, or two when the low byte prints.
BasicGlyphs(cc) ==
    IF 32 <= Lo(cc) /\ 128 > Lo(cc)
    THEN <<Glyph(Hi(cc) - 32), Glyph(Lo(cc) - 32)>>
    ELSE <<Glyph(Hi(cc) - 32)>>

RollUpDepthOf(cmd) ==
    CASE cmd = eia608_control_roll_up_2 -> 2
      [] cmd = eia608_control_roll_up_3 -> 3
      [] cmd = eia608_control_roll_up_4 -> 4
      [] OTHER -> 0

Dropped(f, raw) ==
    parityError(raw) \/ isPadding(StripParity(raw))
        \/ isDuplicate(f, StripParity(raw))

RuNext(h, f, raw) ==
    IF Dropped(f, raw) THEN h
    ELSE LET cc == StripParity(raw)
             cmd == controlCmd(cc)
         IN IF isControl(cc) /\ RollUpDepthOf(cmd) > 0
            THEN IF f.front.data = EmptyData
                 THEN [on |-> TRUE, k |-> RollUpDepthOf(cmd), base |-> f.row,
                       pos |-> f.col, fit |-> TRUE, lines |-> <<>>,
                       cur |-> <<>>]
                 ELSE RuOff
            ELSE IF ~h.on THEN RuOff
            ELSE IF isControl(cc) /\ cmd = eia608_control_carriage_return
            THEN [h EXCEPT !.lines = Append(h.lines, h.cur), !.cur = <<>>,
                           !.pos = 0]
            ELSE IF isPreamble(cc) \/ isMidRowChange(cc) THEN RuOff
            ELSE IF isBasicNA(cc)
            THEN LET g == BasicGlyphs(cc)
                 IN [h EXCEPT !.cur = h.cur \o g, !.pos = h.pos + Len(g),
                              !.fit = h.fit /\ h.pos + Len(g) <= Cols]
            ELSE IF isSpecialNA(cc)
            THEN [h EXCEPT !.cur = Append(h.cur, Glyph(Lo(cc) - 48 + 96)),
                           !.pos = h.pos + 1,
                           !.fit = h.fit /\ h.pos + 1 <= Cols]
            ELSE IF isWesternEu(cc)
            THEN LET kept == IF h.pos > 0 /\ Len(h.cur) > 0
                             THEN SubSeq(h.cur, 1, Len(h.cur) - 1)
                             ELSE h.cur
                     i == IF Hi(cc) % 2 = 0 THEN Lo(cc) - 32 + 112
                          ELSE Lo(cc) - 32 + 144
                 IN [h EXCEPT !.cur = Append(kept, Glyph(i)),
                              !.pos = IF h.pos > 0 THEN h.pos ELSE 1]
            ELSE RuOff

\* ------------------------------------------------------------------ actions
\* The unit as transmitted: the 7-bit pair with its odd-parity bits.
W(cc) == parityWord(cc)

NoUnit == 0 - 1

\* out before CEA708ToCCData was called on env.
NoCall == [units |-> <<>>, err |-> "not called"]

\* A fresh decoder (EIA608Frame{}), before any call. unit, ready and
\* panicked record the argument and the outcome of the last Decode call, pw
\* the value parityWord(ccData) it compared its argument with,
\* env and out the buffer last handed to CEA708ToCCData and its result,
\* repeat whether that call was given the same unit as the call before it,
\* steps the number of calls; hist and pending belong to the caller (the
\* units it has logged, the units of the line it is sending).
Init ==
    /\ underline = FALSE
    /\ style = 0
    /\ row = 0
    /\ col = 0
    /\ ccData = 0
    /\ front = ZeroBuffer
    /\ back = ZeroBuffer
    /\ active = "nil"
    /\ unit = NoUnit
    /\ pw = 0
    /\ env = <<>>
    /\ out = NoCall
    /\ ready = FALSE
    /\ panicked = FALSE
    /\ steps = 0
    /\ repeat = FALSE
    /\ ru = RuOff
    /\ hist = <<>>
    /\ pending = <<>>

\* One call f.Decode(raw). A call that panics leaves the frame as the
\* handler had it at the panic and ends the run.
Decode(raw) ==
    /\ ~panicked
    /\ \E r \in {DecodeResult(Frame, raw)} :
          /\ underline' = r.f.underline
          /\ style' = r.f.style
          /\ row' = r.f.row
          /\ col' = r.f.col
          /\ ccData' = r.f.ccData
          /\ front' = r.f.front
          /\ back' = r.f.back
          /\ active' = r.f.active
          /\ ready' = r.ready
          /\ panicked' = r.panic
    /\ unit' = raw
    /\ pw' = parityWord(raw)
    /\ UNCHANGED <<env, out>>
    /\ repeat' = (raw = unit)
    /\ steps' = steps + 1
    /\ ru' = RuNext(ru, Frame, raw)

\* ---- Spec: any unit of Units, in any order, MaxSteps calls at most.
MaxSteps == 4

Units ==
    { W(eia608_control_resume_caption_loading),
      W(eia608_control_resume_direct_captioning),
      W(eia608_control_roll_up_2),
      W(eia608_control_carriage_return),
      W(eia608_control_backspace),
      W(eia608_control_delete_to_end_of_row),
      W(eia608_control_erase_display_memory),
      W(eia608_control_erase_non_displayed_memory),
      W(eia608_control_end_of_caption),
      W(eia608_tab_offset_1),
      W(eia608_tab_offset_3),
      W(eia608_control_alarm_off),
      \* preambles: 0x1060 (row field 1), 0x115E (row 14, indent 28,
      \* no underline), 0x1462 (row 0, style 1)
      W(4192), W(4446), W(5218),
      \* mid-row 0x1123 (style 1, underlined)
      W(4387),
      \* text: "HI" 0x4849, "A" 0x4100, special 0x1130, Western European
      \* 0x1220 and 0x1320
      W(18505), W(16640), W(4400), W(4640), W(4896),
      \* 0x1420 sent with both parity bits wrong, and padding 0x8080
      5152, 32896 }

Feed(raw) == Decode(raw) /\ UNCHANGED <<hist, pending>>

Next == steps < MaxSteps /\ \E raw \in Units : Feed(raw)

Spec == Init /\ [][Next]_vars

\* ---- SpecPopOn: pop-on captioning, the caller logging the units it sends.
MaxPopOnSteps == 4

PopOnUnits ==
    { W(eia608_control_resume_caption_loading),
      W(eia608_control_end_of_caption),
      \* end of caption on the second channel, 0x1C2F
      W(7215),
      W(eia608_control_roll_up_2),
      W(eia608_control_erase_non_displayed_memory),
      W(eia608_control_carriage_return),
      \* preamble 0x115E (row 14, indent 28), text "HI" and "A"
      W(4446), W(18505), W(16640) }

FeedLogged(raw) ==
    Decode(raw) /\ hist' = Append(hist, raw) /\ UNCHANGED pending

NextPopOn == steps < MaxPopOnSteps /\ \E raw \in PopOnUnits : FeedLogged(raw)

SpecPopOn == Init /\ [][NextPopOn]_vars

\* ---- SpecParity: units whose first byte runs over all 256 values beside a
\* fixed second byte, and the other way round.
MaxParitySteps == 1

ParityUnits ==
    {h * 256 + 128 : h \in 0 .. 255} \cup {128 * 256 + l : l \in 0 .. 255}

NextParity == steps < MaxParitySteps /\ \E raw \in ParityUnits : Feed(raw)

SpecParity == Init /\ [][NextParity]_vars

\* ---- SpecEnvelope: the caller builds a buffer byte by byte, a header of
\* EnvHeaders followed by the count byte, the em_data byte and up to
\* MaxEntries three-byte entries, and may hand every prefix of it to
\* CEA708ToCCData.
MaxEntries == 2

EnvHeaders ==
    { \* country 0xB5, provider ATSC, identifier "GA94", type code 3
      <<181, 0, 49, 71, 65, 57, 52, 3>>,
      \* country 0xB5, provider DirecTV, type code 3, and type code 4
      <<181, 0, 47, 3>>, <<181, 0, 47, 4>>,
      \* country 0xFF with its extension byte, provider DirecTV, type code 3
      <<255, 1, 0, 47, 3>>,
      \* country 0 and provider 0
      <<0, 0, 0, 0, 3>> }

\* count 0..3 with process_cc_data_flag; count 2 with all three flags
EnvCountBytes == {64, 65, 66, 67, 226}
\* valid type 0, valid type 1, not valid type 0, valid type 3
EnvEntryHeads == {252, 253, 184, 255}
EnvPayloadHigh == {148, 200}
EnvPayloadLow == {32}

IsPrefix(a, b) == Len(a) <= Len(b) /\ SubSeq(b, 1, Len(a)) = a

\* The bytes the caller may put next.
EnvNextBytes(e) ==
    IF \E h \in EnvHeaders : IsPrefix(h, e)
    THEN LET h == CHOOSE x \in EnvHeaders : IsPrefix(x, e)
             t == Len(e) - Len(h)
         IN IF t >= 2 + 3 * MaxEntries THEN {}
            ELSE IF t = 0 THEN EnvCountBytes
            ELSE IF t = 1 THEN {255}
            ELSE IF (t - 2) % 3 = 0 THEN EnvEntryHeads
            ELSE IF (t - 2) % 3 = 1 THEN EnvPayloadHigh
            ELSE EnvPayloadLow
    ELSE {x[Len(e) + 1] : x \in {h \in EnvHeaders :
                                    Len(h) > Len(e) /\ IsPrefix(e, h)}}

Untouched608 ==
    UNCHANGED <<underline, style, row, col, ccData, front, back, active,
                unit, pw, ready, panicked, steps, repeat, ru, hist, pending>>

EnvExtend ==
    /\ \E b \in EnvNextBytes(env) : env' = Append(env, b)
    /\ out' = NoCall
    /\ Untouched608

\* units, err := CEA708ToCCData(env)
EnvExtract ==
    /\ out = NoCall
    /\ out' = CEA708ToCCData(env)
    /\ UNCHANGED env
    /\ Untouched608

NextEnvelope == EnvExtend \/ EnvExtract

SpecEnvelope == Init /\ [][NextEnvelope]_vars

\* ---- SpecModes: the caller switches between the captioning modes, with a
\* preamble, a mid-row code, text, tab offsets and end of caption in
\* between.
MaxModeSteps == 4

ModeUnits ==
    { W(eia608_control_resume_direct_captioning),
      W(eia608_control_roll_up_2),
      W(eia608_control_roll_up_3),
      W(eia608_control_roll_up_4),
      W(eia608_control_resume_caption_loading),
      W(eia608_control_end_of_caption),
      \* roll-up 3 on the second channel, 0x1C26
      W(7206),
      W(eia608_tab_offset_1), W(eia608_tab_offset_2), W(eia608_tab_offset_3),
      \* preamble 0x1462 (row 0, style 1), mid-row 0x1123, text "HI"
      W(5218), W(4387), W(18505) }

NextModes == steps < MaxModeSteps /\ \E raw \in ModeUnits : Feed(raw)

SpecModes == Init /\ [][NextModes]_vars

\* ---- SpecRepeats: roll-up captioning with repeated and dropped units, the
\* caller logging the units it sends.
MaxRepeatSteps == 5

RepeatUnits ==
    { W(eia608_control_roll_up_2),
      W(eia608_control_backspace),
      \* text "HI" 0x4849 and special 0x1130
      W(18505), W(4400),
      \* backspace 0x1421 sent with both parity bits wrong, and padding
      \* 0x8080
      5153, 32896 }

NextRepeats ==
    steps < MaxRepeatSteps /\ \E raw \in RepeatUnits : FeedLogged(raw)

SpecRepeats == Init /\ [][NextRepeats]_vars

\* ---- SpecClassify: the caller selects roll-up captioning with up to
\* MaxClassifySetup logged units, then sends one unit out of all pairs of
\* seven-bit bytes, with its parity bits, and stops.
MaxClassifySetup == 1

StrippedUnits == {h * 256 + l : h \in 0 .. 127, l \in 0 .. 127}

ClassifySetup ==
    /\ steps = Len(hist)
    /\ Len(hist) < MaxClassifySetup
    /\ FeedLogged(W(eia608_control_roll_up_2))

ClassifyUnit ==
    /\ steps = Len(hist)
    /\ \E cc \in StrippedUnits : Feed(W(cc))

NextClassify == ClassifySetup \/ ClassifyUnit

SpecClassify == Init /\ [][NextClassify]_vars

\* ---- SpecString: a frame buffer filled cell by cell through setChar, up
\* to MaxCells cells on three rows and three columns, with two glyphs and
\* two sets of attributes; String() is read in every state.
MaxCells == 3

StringRows == {0, 7, 14}
StringCols == {0, 5, 31}
StringCells ==
    { [char |-> 65, style |-> 0, underline |-> FALSE],
      [char |-> 66, style |-> 1, underline |-> TRUE] }

StringPut ==
    /\ Cardinality({p \in StringRows \X StringCols :
                       front.data[p[1]][p[2]].char # 0}) < MaxCells
    /\ \E r \in StringRows, c \in StringCols, ch \in StringCells :
          /\ front.data[r][c].char = 0
          /\ front' = setChar(front, r, c, ch)
    /\ UNCHANGED <<underline, style, row, col, ccData, back, active, unit,
                   pw, ready, panicked, steps, repeat, ru, hist, pending,
                   env, out>>

NextString == StringPut

SpecString == Init /\ [][NextString]_vars

\* ---- SpecRollup: roll-up captioning. The caller positions the cursor
\* (at most MaxSetup units), selects a roll-up depth, then sends up to
\* MaxLines lines of RollupLines, each followed by a carriage return.
MaxSetup == 2
MaxLines == 5

RollupSetupUnits ==
    { W(eia608_control_resume_caption_loading),
      \* preambles 0x1140 (row 14), 0x1160 (row 13), 0x1240 (row 12)
      W(4416), W(4448), W(4672) }

RollupSelectUnits ==
    { W(eia608_control_roll_up_2), W(eia608_control_roll_up_3),
      W(eia608_control_roll_up_4) }

\* "ONE" as 0x4F4E 0x4500 and "TWO" as 0x5457 0x4F00.
LineONE == <<W(20302), W(17664)>>
LineTWO == <<W(21591), W(20224)>>
\* A special character, "A", and the Western European unit that replaces
\* the "A": 0x1137 0x4100 0x1220.
LineNote == <<W(4407), W(16640), W(4640)>>
RollupLines == {LineONE, LineTWO, LineNote}

RollupSetup ==
    /\ ~ru.on
    /\ steps < MaxSetup
    /\ \E raw \in RollupSetupUnits : Decode(raw)
    /\ UNCHANGED <<hist, pending>>

RollupSelect ==
    /\ ~ru.on
    /\ \E raw \in RollupSelectUnits : Decode(raw)
    /\ UNCHANGED <<hist, pending>>

RollupStartLine ==
    /\ ru.on
    /\ pending = <<>>
    /\ Len(ru.lines) < MaxLines
    /\ \E l \in RollupLines :
          /\ Decode(Head(l))
          /\ pending' = Tail(l) \o <<W(eia608_control_carriage_return)>>
    /\ UNCHANGED hist

RollupContinueLine ==
    /\ pending # <<>>
    /\ Decode(Head(pending))
    /\ pending' = Tail(pending)
    /\ UNCHANGED hist

NextRollup ==
    RollupSetup \/ RollupSelect \/ RollupStartLine \/ RollupContinueLine

SpecRollup == Init /\ [][NextRollup]_vars

\* ================================================================== claims
\* Parity stated independently of the decoder's table: a byte is valid when
\* the number of its one bits is odd.
OddByte(b) ==
    (Bit(b, 7) + Bit(b, 6) + Bit(b, 5) + Bit(b, 4) + Bit(b, 3) + Bit(b, 2)
        + Bit(b, 1) + Bit(b, 0)) % 2 = 1

ParityValid(raw) == OddByte(Hi(raw)) /\ OddByte(Lo(raw))

\* The 7-bit pair a transmitted unit carries.
Payload(raw) == (Hi(raw) % 128) * 256 + (Lo(raw) % 128)

\* The command a control pair carries once its channel bits are cleared
\* (0 when the pair is no control pair).
CommandOf(cc) ==
    IF Hi(cc) \in {20, 21, 28, 29} /\ Lo(cc) \in 32 .. 47 THEN 5120 + Lo(cc)
    ELSE IF Hi(cc) \in {23, 31} /\ Lo(cc) \in 32 .. 47 THEN 5888 + Lo(cc)
    ELSE 0

IsControlPair(cc) == CommandOf(cc) # 0
IsPreamblePair(cc) ==
    ~IsControlPair(cc) /\ Hi(cc) \in 16 .. 31 /\ Lo(cc) \in 64 .. 127
IsMidRowPair(cc) == Hi(cc) \in {17, 25} /\ Lo(cc) \in 32 .. 47
IsSpecialPair(cc) == Hi(cc) \in {17, 25} /\ Lo(cc) \in 48 .. 63
IsWesternPair(cc) == Hi(cc) \in {18, 19, 26, 27} /\ Lo(cc) \in 32 .. 63
IsBasicPair(cc) == Hi(cc) \in 32 .. 127
IsTextPair(cc) == IsBasicPair(cc) \/ IsSpecialPair(cc) \/ IsWesternPair(cc)

\* C1: every Decode call completes normally (no abort), in every mode and
\* at every cursor row.
C1_DecodeNeverAborts == panicked = FALSE

\* C2: a unit with a parity error in either byte, and a padding unit
\* (payload 0), is dropped: not ready, no abort, decoder state unchanged.
C2_InvalidUnitDropped ==
    [][(unit' # NoUnit /\ (~ParityValid(unit') \/ Payload(unit') = 0))
          => (ready' = FALSE /\ panicked' = FALSE /\ UNCHANGED decoder)]_vars

C2_Witness ==
    /\ unit # NoUnit
    /\ ~ParityValid(unit)
    /\ active # "nil"
    /\ front.data # EmptyData
    /\ ccData # 0

\* C3: a control or special North-American unit decoded twice in a row: the
\* second call is not ready and leaves the whole decoder state as it was.
C3_DuplicateSuppressed ==
    [][(unit # NoUnit /\ unit' = unit
          /\ (IsControlPair(Payload(unit')) \/ IsSpecialPair(Payload(unit'))))
          => (ready' = FALSE /\ panicked' = FALSE /\ UNCHANGED decoder)]_vars

C3_Witness ==
    /\ repeat
    /\ ParityValid(unit)
    /\ IsSpecialPair(Payload(unit))
    /\ active = "front"
    /\ col = 1
    /\ front.data[0][0].char # 0

\* C4: while the back buffer is active, a preamble, mid-row, text,
\* backspace, delete-to-end-of-row, carriage-return or tab-offset unit
\* changes no cell of the front buffer, so its rendering stays the same.
IsBackOnlyPair(cc) ==
    \/ IsPreamblePair(cc) \/ IsMidRowPair(cc) \/ IsTextPair(cc)
    \/ CommandOf(cc) \in {eia608_control_backspace,
                          eia608_control_delete_to_end_of_row,
                          eia608_control_carriage_return,
                          eia608_tab_offset_1, eia608_tab_offset_2,
                          eia608_tab_offset_3}

C4_PopOnIsolation ==
    [][(active = "back" /\ unit' # NoUnit /\ IsBackOnlyPair(Payload(unit')))
          => (front'.data = front.data /\ String(front') = String(front))]_vars

C4_Witness ==
    /\ active = "back"
    /\ ParityValid(unit)
    /\ IsTextPair(Payload(unit))
    /\ back.data # EmptyData
    /\ front.data # EmptyData
    /\ ccData = Payload(unit)

\* C5: a non-duplicate end-of-caption unit puts the back buffer's cells in
\* front, leaves the new back buffer empty, homes the cursor, makes back the
\* active buffer and reports ready; resume-caption-loading, "HI",
\* end-of-caption on a fresh decoder renders "HI" in mode PopOn.
C5_ScenarioA ==
    <<W(eia608_control_resume_caption_loading), W(18505),
      W(eia608_control_end_of_caption)>>

C5_EndOfCaption ==
    /\ [][(steps' = steps + 1 /\ ParityValid(unit')
             /\ CommandOf(Payload(unit')) = eia608_control_end_of_caption
             /\ Payload(unit') # ccData)
            => /\ front'.data = back.data
               /\ back'.data = EmptyData
               /\ row' = 0 /\ col' = 0
               /\ active' = "back"
               /\ ready' = TRUE
               /\ panicked' = FALSE]_vars
    /\ [](hist = C5_ScenarioA
            => /\ String(front) = <<72, 73>>
               /\ StateSnapshot(Frame).Mode = "PopOn"
               /\ StateSnapshot(Frame).Content = <<72, 73>>)

C5_Witness ==
    /\ hist = C5_ScenarioA
    /\ ready
    /\ active = "back"
    /\ front.data[0][0].char = 72
    /\ back.data = EmptyData

\* C6 (as amended): after roll-up depth k is selected on an empty front
\* buffer at a base row r with r + k <= 15, and only text lines that fit in
\* the row, each ended by a carriage return, were sent since: the rendering
\* is the last k lines sent (the line in progress included), oldest first,
\* so at most k lines, and the oldest line is the one dropped.
C6_Window(h) ==
    LET all == Append(h.lines, h.cur)
        n == Len(all)
    IN SelectSeq(SubSeq(all, IF n > h.k THEN n - h.k + 1 ELSE 1, n),
                 LAMBDA l : l # <<>>)

C6_ONE == <<79, 78, 69>>
C6_TWO == <<84, 87, 79>>

C6_Holds ==
    /\ String(front) = Join(C6_Window(ru))
    /\ Len(scanRows(front.data)) <= ru.k
    /\ (ru.k = 2 /\ ru.base = 0 /\ ru.lines = <<C6_ONE>> /\ ru.cur = C6_TWO)
          => String(front) = C6_ONE \o <<10>> \o C6_TWO

C6_RollupFIFO_FittingWindow ==
    (ru.on /\ ru.fit /\ ru.base + ru.k <= 15) => C6_Holds

C6_Witness ==
    /\ ru.on /\ ru.fit
    /\ ru.k = 2
    /\ ru.base = 13
    /\ ru.lines = <<C6_ONE, C6_TWO, C6_TWO>>
    /\ ru.cur = C6_ONE
    /\ String(front) = C6_TWO \o <<10>> \o C6_ONE

\* C6 (as claimed): the same at whatever base row the cursor stands.
C6_RollupFIFO_AnyRow == (ru.on /\ ru.fit) => C6_Holds

\* C7: the snapshot is Unknown with zero fields and empty content while no
\* active buffer is selected, and never Unknown once one is.
C7_SnapshotUnknownIffNoActive ==
    /\ active = "nil" =>
          StateSnapshot(Frame) = [Mode |-> "Unknown", Rollup |-> 0, Row |-> 0,
                                  Col |-> 0, Content |-> <<>>]
    /\ active # "nil" => StateSnapshot(Frame).Mode \in {"PopOn", "PaintOn"}

C7_Witness == active = "nil" /\ steps >= 2 /\ ccData # 0 /\ ParityValid(unit)

\* C8: with an active buffer selected the snapshot reads the front buffer
\* only: mode from its roll-up depth, row as 15 minus its configured row,
\* its configured column, and its rendering as content.
C8_SnapshotFromFront ==
    active # "nil" =>
        LET s == StateSnapshot(Frame)
        IN /\ s.Mode = (IF front.state.Rollup > 0 THEN "PaintOn" ELSE "PopOn")
           /\ s.Rollup = front.state.Rollup
           /\ s.Row = 15 - front.state.Row
           /\ s.Col = front.state.Col
           /\ s.Content = String(front)

C8_Witness ==
    /\ active = "back"
    /\ back.data # EmptyData
    /\ back.data # front.data
    /\ col # front.state.Col
    /\ front.state.Rollup > 0
    /\ front.data # EmptyData
    /\ back.state.Rollup = 0

\* C9: the live cursor row is always in [0,15).
C9_CursorRowInRange == row >= 0 /\ row < 15

\* C10: the live cursor column is always in [0,32).
C10_CursorColInRange == col >= 0 /\ col < 32

\* A call that was given a parity-valid unit carrying command cmd.
Processed(cmds) ==
    /\ steps' = steps + 1
    /\ ParityValid(unit')
    /\ CommandOf(Payload(unit')) \in cmds

\* The commands that assign f.active.
ModeCommands ==
    {eia608_control_resume_direct_captioning, eia608_control_roll_up_2,
     eia608_control_roll_up_3, eia608_control_roll_up_4,
     eia608_control_resume_caption_loading, eia608_control_end_of_caption}

\* C11 (as amended): the active buffer is unset only before the first
\* mode-establishing control unit (resume direct captioning, roll-up 2/3/4,
\* resume caption loading, end of caption): a call given such a unit leaves
\* a buffer selected, a call given anything else leaves the selector as it
\* was, and once a buffer is selected the selector is never unset again.
C11_ActiveSetByModeCommand ==
    [][/\ Processed(ModeCommands) => active' # "nil"
       /\ (steps' = steps + 1 /\ ~Processed(ModeCommands)) => active' = active
       /\ active # "nil" => active' # "nil"]_vars

C11_Witness ==
    /\ steps >= 3
    /\ active = "front"
    /\ ParityValid(unit)
    /\ CommandOf(Payload(unit)) = eia608_control_roll_up_2
    /\ ccData = Payload(unit)
    /\ front.data # EmptyData

\* C11 (as claimed): after a call given any parity-valid control unit a
\* buffer is selected, and once selected the selector is never unset again.
C11_ActiveSetByAnyControl ==
    [][/\ (steps' = steps + 1 /\ ParityValid(unit')
             /\ IsControlPair(Payload(unit'))) => active' # "nil"
       /\ active # "nil" => active' # "nil"]_vars

\* C12: while no active buffer is selected a preamble, mid-row or text unit
\* is dropped: the call returns not ready without aborting and leaves both
\* buffers, the cursor, the attributes and the selector as they were; as
\* long as no buffer is selected both buffers are empty and the rendering is
\* empty.
C12_DroppedWithoutActive ==
    /\ [][(active = "nil" /\ steps' = steps + 1 /\ ParityValid(unit')
             /\ (IsPreamblePair(Payload(unit')) \/ IsMidRowPair(Payload(unit'))
                   \/ IsTextPair(Payload(unit'))))
            => /\ ready' = FALSE /\ panicked' = FALSE
               /\ UNCHANGED <<front, back, row, col, style, underline,
                              active>>]_vars
    /\ [](active = "nil"
            => /\ front = ZeroBuffer /\ back = ZeroBuffer
               /\ row = 0 /\ col = 0 /\ style = 0 /\ underline = FALSE
               /\ String(front) = <<>>
               /\ StateSnapshot(Frame).Content = <<>>)

\* A text unit was fed as the second unit and no buffer was ever selected.
C12_Witness ==
    /\ active = "nil"
    /\ steps = 2
    /\ ParityValid(unit)
    /\ IsBasicPair(Payload(unit))
    /\ ccData = Payload(unit)
    /\ ~repeat

\* The glyph a Western European pair stands for: the Spanish/French set on
\* an even first byte, the Portuguese/German set on an odd one.
WesternGlyph(cc) ==
    Glyph(IF Hi(cc) % 2 = 0 THEN Lo(cc) - 32 + 112 ELSE Lo(cc) - 32 + 144)

\* The cells of the active buffer, before and after a step.
ActiveData == IF active = "front" THEN front.data ELSE back.data
ActiveDataNext == IF active' = "front" THEN front'.data ELSE back'.data

\* C13: a Western European unit decoded right after a basic text unit
\* replaces the cell of the last character written, the one left of the
\* cursor, by the extended glyph with the current attributes; the cursor
\* column is as before and no other cell of either buffer changes.
C13_WesternReplacesPrevious ==
    [][(/\ active # "nil"
        /\ unit # NoUnit /\ ParityValid(unit) /\ IsBasicPair(Payload(unit))
        /\ steps' = steps + 1
        /\ ParityValid(unit') /\ IsWesternPair(Payload(unit')))
          => /\ panicked' = FALSE
             /\ col' = col
             /\ InGrid(row, col - 1)
             /\ ActiveDataNext =
                  [ActiveData EXCEPT ![row][col - 1] =
                      [char |-> WesternGlyph(Payload(unit')),
                       style |-> style, underline |-> underline]]
             /\ active = "front" => back' = back
             /\ active = "back" => front' = front]_vars

\* The same for a cursor inside the grid whose last character was stored.
C13_InGridOnly ==
    [][(/\ active # "nil"
        /\ unit # NoUnit /\ ParityValid(unit) /\ IsBasicPair(Payload(unit))
        /\ steps' = steps + 1
        /\ ParityValid(unit') /\ IsWesternPair(Payload(unit'))
        /\ row < Rows /\ col <= Cols
        /\ ActiveData[row][col - 1].char # 0)
          => /\ panicked' = FALSE
             /\ col' = col
             /\ ActiveDataNext =
                  [ActiveData EXCEPT ![row][col - 1] =
                      [char |-> WesternGlyph(Payload(unit')),
                       style |-> style, underline |-> underline]]]_vars

\* The roll-up depth of the active buffer (0 when none is selected).
ActiveRollup ==
    IF active = "front" THEN front.state.Rollup
    ELSE IF active = "back" THEN back.state.Rollup
    ELSE 0

\* The unit of the step is dropped before it is dispatched: parity error,
\* padding, or a control or special unit equal to the last unit processed.
StepDrops ==
    \/ ~ParityValid(unit')
    \/ Payload(unit') = 0
    \/ /\ IsControlPair(Payload(unit')) \/ IsSpecialPair(Payload(unit'))
       /\ Payload(unit') = ccData

\* The readiness the step is to return.
StepReady ==
    /\ ~StepDrops
    /\ \/ CommandOf(Payload(unit')) \in
             {eia608_control_erase_display_memory,
              eia608_control_end_of_caption}
       \/ IsTextPair(Payload(unit')) /\ active # "nil" /\ ActiveRollup > 0

\* C14: every call returns, and returns ready exactly when the unit it
\* processed is erase displayed memory, end of caption, or text decoded
\* while the active buffer's roll-up depth is positive.
C14_ReadyExactly ==
    [][steps' = steps + 1
          => (panicked' = FALSE /\ ready' = StepReady)]_vars

\* The same for the calls that return.
C14_ReadyWhenReturns ==
    [][(steps' = steps + 1 /\ ~panicked') => ready' = StepReady]_vars

\* The glyphs a basic or special pair writes, in order.
GlyphsOf(cc) ==
    IF IsBasicPair(cc) THEN BasicGlyphs(cc) ELSE <<Glyph(Lo(cc) - 48 + 96)>>

\* One write as C15 has it: the glyph goes to the cursor cell and the
\* cursor moves right by one, staying on column 31 once there.
ClampedWrite(st, g) ==
    [data |-> [st.data EXCEPT ![row][st.col] =
                  [char |-> g, style |-> style, underline |-> underline]],
     col |-> IF st.col + 1 < Cols THEN st.col + 1 ELSE Cols - 1]

ClampedWrites(st, gs) ==
    IF Len(gs) = 1 THEN ClampedWrite(st, gs[1])
    ELSE ClampedWrite(ClampedWrite(st, gs[1]), gs[2])

\* C15: with the cursor inside the grid, each character of a basic or
\* special unit is written at the cursor and advances it by one column,
\* clamped at column 31: on a full row the cursor stays on column 31 and
\* further characters overwrite that cell.
C15_WriteClampsAtLastColumn ==
    [][(/\ active # "nil" /\ row < Rows /\ col < Cols
        /\ steps' = steps + 1 /\ ~StepDrops
        /\ IsBasicPair(Payload(unit')) \/ IsSpecialPair(Payload(unit')))
          => \E st \in {ClampedWrites([data |-> ActiveData, col |-> col],
                                      GlyphsOf(Payload(unit')))} :
                /\ col' = st.col
                /\ ActiveDataNext = st.data]_vars

\* The same for writes that end left of column 31.
C15_WriteAdvances ==
    [][(/\ active # "nil" /\ row < Rows
        /\ col + Len(GlyphsOf(Payload(unit'))) < Cols
        /\ steps' = steps + 1 /\ ~StepDrops
        /\ IsBasicPair(Payload(unit')) \/ IsSpecialPair(Payload(unit')))
          => \E st \in {ClampedWrites([data |-> ActiveData, col |-> col],
                                      GlyphsOf(Payload(unit')))} :
                /\ col' = st.col
                /\ ActiveDataNext = st.data]_vars

\* C16: the table entry of a byte keeps the byte's low 7 bits and has an odd
\* number of one bits, for both bytes of every unit fed; a unit passes the
\* parity check exactly when both of its bytes have odd parity, and a unit
\* that does not pass is dropped.
C16_OddParityTable ==
    [][steps' = steps + 1
          => /\ Hi(pw') % 128 = Hi(unit') % 128
             /\ Lo(pw') % 128 = Lo(unit') % 128
             /\ OddByte(Hi(pw')) /\ OddByte(Lo(pw'))
             /\ (pw' = unit') <=> ParityValid(unit')
             /\ pw' # unit' => (UNCHANGED decoder /\ ready' = FALSE)
             /\ (pw' = unit' /\ Payload(unit') # 0 /\ Payload(unit') # ccData)
                   => ccData' = Payload(unit')]_vars

C16_Witness ==
    /\ steps = 1
    /\ pw = unit
    /\ Hi(unit) = 193
    /\ ccData = 16640

\* The layout of an envelope of at least 4 bytes, stated from the format:
\* country code, an extension byte after country 0xFF, two bytes of
\* provider, four bytes of identifier for ATSC, the type code, then the
\* count byte, the em_data byte and the three-byte entries.
EnvProviderAt(e) == IF e[1] = 255 THEN 3 ELSE 2
EnvProvider(e) == e[EnvProviderAt(e)] * 256 + e[EnvProviderAt(e) + 1]
EnvTyped(e) == Len(e) >= 4 /\ EnvProvider(e) \in {47, 49}
\* The position of the count byte.
EnvCountAt(e) ==
    EnvProviderAt(e) + 2 + (IF EnvProvider(e) = 49 THEN 4 ELSE 0) + 1
EnvCount(e) == e[EnvCountAt(e)] % 32
\* The complete entries present, and the k-th of them.
EnvComplete(e) == (Len(e) - (EnvCountAt(e) + 1)) \div 3
EnvEntryAt(e, k) == EnvCountAt(e) + 2 + 3 * (k - 1)
EnvEntryKept(e, k) ==
    /\ (e[EnvEntryAt(e, k)] \div 64) % 2 = 1
    /\ e[EnvEntryAt(e, k)] % 4 = 0
EnvEntryPayload(e, k) ==
    e[EnvEntryAt(e, k) + 1] * 256 + e[EnvEntryAt(e, k) + 2]

EnvTooShort(e) == Len(e) < 4
EnvFieldMissing(e) == EnvTyped(e) /\ Len(e) < EnvCountAt(e) + 1
EnvFewerEntries(e) ==
    EnvTyped(e) /\ ~EnvFieldMissing(e) /\ EnvComplete(e) < EnvCount(e)

\* C17: extraction returns an error and no unit when the buffer is shorter
\* than 4 bytes, when a declared field is cut short, or when fewer complete
\* entries are present than the count byte declares; an error never comes
\* with units.
C17_StructuralError ==
    out # NoCall =>
        /\ (EnvTooShort(env) \/ EnvFieldMissing(env) \/ EnvFewerEntries(env))
              => (out.err # NoErr /\ out.units = <<>>)
        /\ out.err # NoErr => out.units = <<>>

\* One complete printable entry is present where two are declared.
C17_Witness ==
    /\ out # NoCall
    /\ EnvFewerEntries(env)
    /\ EnvCount(env) = 2
    /\ EnvComplete(env) = 1
    /\ EnvEntryKept(env, 1)
    /\ out.err = "mismatched cc count"

\* The payloads of the kept ones among entries k..n, in order.
RECURSIVE EnvKeptFrom(_, _, _)
EnvKeptFrom(e, k, n) ==
    IF k > n THEN <<>>
    ELSE (IF EnvEntryKept(e, k) THEN <<EnvEntryPayload(e, k)>> ELSE <<>>)
            \o EnvKeptFrom(e, k + 1, n)

\* C18: when extraction succeeds its result is, in order, the 16-bit
\* payloads of those of the declared count entries whose valid flag is set
\* and whose type is 0, and nothing else: at most count, at most 31 units.
C18_FilteredPayloads ==
    (out # NoCall /\ out.err = NoErr) =>
        /\ EnvTyped(env)
        /\ EnvComplete(env) >= EnvCount(env)
        /\ out.units = EnvKeptFrom(env, 1, EnvCount(env))
        /\ Len(out.units) <= EnvCount(env)
        /\ EnvCount(env) <= 31

\* Two entries declared and present: the first of type 1 is left out, the
\* second, valid and of type 0, gives the only unit, 0x9420.
C18_Witness ==
    /\ out # NoCall /\ out.err = NoErr
    /\ EnvCount(env) = 2
    /\ ~EnvEntryKept(env, 1)
    /\ out.units = <<37920>>

\* The Col recorded in the active buffer after a step.
ActiveStateColNext ==
    IF active' = "front" THEN front'.state.Col ELSE back'.state.Col

\* The rows after a roll-up shift of depth R at row r as C19 has it: row r
\* empty, rows r+1..r+R-1 holding what rows r..r+R-2 held, the rest as
\* before.
RolledUp(data, r, R) ==
    [j \in 0 .. Rows - 1 |->
        IF j = r THEN EmptyRow
        ELSE IF j >= r + 1 /\ j <= r + R - 1 THEN data[j - 1]
        ELSE data[j]]

\* A step that processes a carriage return with an active buffer selected.
CarriageReturnStep ==
    /\ active # "nil"
    /\ steps' = steps + 1 /\ ~StepDrops
    /\ CommandOf(Payload(unit')) = eia608_control_carriage_return

\* C19: a carriage return with roll-up depth R (0..4) at cursor row r sets
\* the cursor column and the active buffer's recorded column to 0 and
\* returns not ready; with 0 < r + R <= 15 the rows are rolled up at r, and
\* otherwise no cell changes.
C19_CarriageReturn ==
    [][CarriageReturnStep
          => /\ panicked' = FALSE /\ ready' = FALSE
             /\ col' = 0 /\ ActiveStateColNext = 0
             /\ ActiveDataNext =
                  (IF 0 < row + ActiveRollup /\ row + ActiveRollup <= Rows
                   THEN RolledUp(ActiveData, row, ActiveRollup)
                   ELSE ActiveData)]_vars

\* The same for a positive roll-up depth.
C19_PositiveDepth ==
    [][(CarriageReturnStep /\ ActiveRollup > 0)
          => /\ panicked' = FALSE /\ ready' = FALSE
             /\ col' = 0 /\ ActiveStateColNext = 0
             /\ ActiveDataNext =
                  (IF 0 < row + ActiveRollup /\ row + ActiveRollup <= Rows
                   THEN RolledUp(ActiveData, row, ActiveRollup)
                   ELSE ActiveData)]_vars

\* The buffer a mode command selects and the depth it stores there.
ModeTarget(cmd) ==
    IF cmd = eia608_control_resume_caption_loading THEN "back" ELSE "front"

ModeDepth(cmd) ==
    CASE cmd = eia608_control_resume_direct_captioning -> 1
      [] cmd = eia608_control_roll_up_2 -> 2
      [] cmd = eia608_control_roll_up_3 -> 3
      [] cmd = eia608_control_roll_up_4 -> 4
      [] OTHER -> 0

\* C20: a processed resume-direct-captioning, roll-up 2/3/4 or
\* resume-caption-loading unit selects front (back for resume caption
\* loading), stores depth 1, 2/3/4 or 0 in the selected buffer, returns not
\* ready, and leaves the cells of both buffers, the cursor, the attributes
\* and the other buffer's display state as they were.
C20_ModeCommands ==
    [][(/\ steps' = steps + 1 /\ ~StepDrops
        /\ CommandOf(Payload(unit')) \in
              ModeCommands \ {eia608_control_end_of_caption})
          => \E cmd \in {CommandOf(Payload(unit'))} :
                /\ active' = ModeTarget(cmd)
                /\ ready' = FALSE /\ panicked' = FALSE
                /\ front'.data = front.data /\ back'.data = back.data
                /\ UNCHANGED <<row, col, style, underline>>
                /\ IF ModeTarget(cmd) = "front"
                   THEN /\ front'.state.Rollup = ModeDepth(cmd)
                        /\ back'.state = back.state
                   ELSE /\ back'.state.Rollup = ModeDepth(cmd)
                        /\ front'.state = front.state]_vars

\* Resume caption loading after roll-up captions were painted.
C20_Witness ==
    /\ ParityValid(unit)
    /\ CommandOf(Payload(unit)) = eia608_control_resume_caption_loading
    /\ ccData = Payload(unit)
    /\ active = "back"
    /\ back.state.Rollup = 0
    /\ front.state.Rollup = 3
    /\ front.data # EmptyData
    /\ col # 0

\* A step that processes a control unit carrying command cmd.
CommandStep(cmd) ==
    /\ steps' = steps + 1 /\ ~StepDrops
    /\ CommandOf(Payload(unit')) = cmd

\* C21: erase displayed memory empties the front buffer's cells and erase
\* non-displayed memory the back buffer's; the other buffer's cells, both
\* display states, the selector, the cursor and the attributes stay as they
\* were, whether or not a buffer is selected.
C21_EraseCommands ==
    [][/\ CommandStep(eia608_control_erase_display_memory)
            => /\ front'.data = EmptyData /\ back'.data = back.data
               /\ front'.state = front.state /\ back'.state = back.state
               /\ UNCHANGED <<active, row, col, style, underline>>
               /\ panicked' = FALSE
       /\ CommandStep(eia608_control_erase_non_displayed_memory)
            => /\ back'.data = EmptyData /\ front'.data = front.data
               /\ front'.state = front.state /\ back'.state = back.state
               /\ UNCHANGED <<active, row, col, style, underline>>
               /\ panicked' = FALSE]_vars

\* Erase displayed memory after two characters were painted at roll-up
\* depth 2.
C21_Witness ==
    /\ ParityValid(unit)
    /\ CommandOf(Payload(unit)) = eia608_control_erase_display_memory
    /\ ccData = Payload(unit)
    /\ front.data = EmptyData
    /\ front.state.Rollup = 2
    /\ active = "front"
    /\ col = 2

\* The buffer that is not the active one, before and after a step.
InactiveBuf == IF active = "front" THEN back ELSE front
InactiveBufNext == IF active' = "front" THEN back' ELSE front'

\* C22: a processed backspace with an active buffer moves the cursor one
\* column left unless it is on column 0, then empties the active buffer's
\* cell under the cursor; no other cell of either buffer changes, the row
\* and the selector stay and the call returns not ready.
C22_Backspace ==
    [][(active # "nil" /\ CommandStep(eia608_control_backspace))
          => /\ col' = (IF col > 0 THEN col - 1 ELSE 0)
             /\ row' = row /\ active' = active
             /\ ready' = FALSE /\ panicked' = FALSE
             /\ \A r \in 0 .. Rows - 1 : \A c \in 0 .. Cols - 1 :
                   ActiveDataNext[r][c] =
                      (IF r = row' /\ c = col' THEN EmptyChar
                       ELSE ActiveData[r][c])
             /\ InactiveBufNext = InactiveBuf]_vars

\* "HI" then backspace: the "I" is gone, the "H" is left.
C22_Witness ==
    /\ ParityValid(unit)
    /\ CommandOf(Payload(unit)) = eia608_control_backspace
    /\ ccData = Payload(unit)
    /\ active # "nil"
    /\ row < Rows
    /\ col = 1
    /\ ActiveData[row][0].char = 72
    /\ ActiveData[row][1].char = 0

\* C23: a processed delete-to-end-of-row with an active buffer empties the
\* cells of the cursor row from the cursor column to column 31 in the
\* active buffer and nothing else: the cells left of the cursor, the other
\* rows, the inactive buffer and the cursor stay, and the call returns not
\* ready.
C23_DeleteToEndOfRow ==
    [][(active # "nil" /\ CommandStep(eia608_control_delete_to_end_of_row))
          => /\ UNCHANGED <<row, col, active>>
             /\ ready' = FALSE /\ panicked' = FALSE
             /\ \A r \in 0 .. Rows - 1 : \A c \in 0 .. Cols - 1 :
                   ActiveDataNext[r][c] =
                      (IF r = row /\ c >= col THEN EmptyChar
                       ELSE ActiveData[r][c])
             /\ InactiveBufNext = InactiveBuf]_vars

\* The fourth unit is a delete-to-end-of-row at column 0 of row 0, where
\* preamble 0x1462 put the cursor, in a painted-on front buffer: the whole
\* of the buffer is empty.
C23_Witness ==
    /\ ParityValid(unit)
    /\ CommandOf(Payload(unit)) = eia608_control_delete_to_end_of_row
    /\ ccData = Payload(unit)
    /\ steps = 4
    /\ active = "front"
    /\ front.state.Rollup > 0
    /\ row = 0 /\ col = 0 /\ style = 1
    /\ front.data = EmptyData

\* The display state of the active buffer after a step.
ActiveStateNext == IF active' = "front" THEN front'.state ELSE back'.state

\* The fields of a preamble pair: the 4-bit row field (three low bits of
\* the first byte, then bit 0x20 of the second), the indent flag 0x10, the
\* 3-bit field 0x0E and the underline bit.
PreambleRowField(cc) == (Hi(cc) % 8) * 2 + ((Lo(cc) \div 32) % 2)
PreambleIndent(cc) == (Lo(cc) \div 16) % 2 = 1
PreambleField(cc) == (Lo(cc) \div 2) % 8
PreambleUnderline(cc) == Lo(cc) % 2 = 1

\* A step that processes a preamble with an active buffer selected.
PreambleStep ==
    /\ active # "nil"
    /\ steps' = steps + 1 /\ ~StepDrops
    /\ IsPreamblePair(Payload(unit'))

\* C24: a preamble decoded with an active buffer sets the cursor row to the
\* row-map entry of its row field and underline to its low bit; without the
\* indent flag the style is the 3-bit field and the column 0, with it the
\* column is 4 times the field and the style 0. Row and column are recorded
\* in the active buffer's display state, no cell and nothing of the other
\* buffer changes, the call returns not ready, and the same preamble
\* decoded again changes nothing.
C24_Preamble ==
    [][/\ PreambleStep
            => \E cc \in {Payload(unit')} :
                  /\ row' = RowMapSeq[PreambleRowField(cc) + 1]
                  /\ underline' = PreambleUnderline(cc)
                  /\ style' = (IF PreambleIndent(cc) THEN 0
                               ELSE PreambleField(cc))
                  /\ col' = (IF PreambleIndent(cc) THEN 4 * PreambleField(cc)
                             ELSE 0)
                  /\ ActiveStateNext.Row = row' /\ ActiveStateNext.Col = col'
                  /\ ActiveDataNext = ActiveData
                  /\ InactiveBufNext = InactiveBuf
                  /\ active' = active
                  /\ ready' = FALSE /\ panicked' = FALSE
       /\ (PreambleStep /\ unit' = unit) => UNCHANGED decoder]_vars

\* Preamble 0x115E (row field 2, indent 28) decoded twice in a row.
C24_Witness ==
    /\ repeat
    /\ ParityValid(unit)
    /\ Payload(unit) = 4446
    /\ ccData = 4446
    /\ active = "back"
    /\ row = 14 /\ col = 28 /\ style = 0
    /\ back.state.Row = 14 /\ back.state.Col = 28

\* The display state of the active buffer before a step.
ActiveState == IF active = "front" THEN front.state ELSE back.state

TabCommands == {eia608_tab_offset_1, eia608_tab_offset_2, eia608_tab_offset_3}

\* A step that processes a tab offset; its n is the command's last digit.
TabStep ==
    /\ steps' = steps + 1 /\ ~StepDrops
    /\ CommandOf(Payload(unit')) \in TabCommands

TabWidth == Lo(Payload(unit')) - 32

\* What a tab offset does with an active buffer selected.
TabMovesCursor ==
    (TabStep /\ active # "nil")
       => /\ col' = col + TabWidth
          /\ ActiveStateNext = [ActiveState EXCEPT !.Col = @ + TabWidth]
          /\ ActiveDataNext = ActiveData
          /\ InactiveBufNext = InactiveBuf
          /\ UNCHANGED <<row, style, underline, active>>
          /\ ready' = FALSE /\ panicked' = FALSE

\* C25 (as amended): a tab offset n decoded with an active buffer adds n to
\* the cursor column and to the active buffer's recorded column, changes no
\* cell and returns not ready; without an active buffer it changes nothing
\* but the last-seen unit, which becomes the tab offset.
C25_TabOffset ==
    [][/\ TabMovesCursor
       /\ (TabStep /\ active = "nil")
            => /\ UNCHANGED <<underline, style, row, col, front, back, active>>
               /\ ccData' = Payload(unit')
               /\ ready' = FALSE /\ panicked' = FALSE]_vars

\* Tab offset 2 after "HI" in a painted-on front buffer.
C25_Witness ==
    /\ ParityValid(unit)
    /\ CommandOf(Payload(unit)) = eia608_tab_offset_2
    /\ ccData = Payload(unit)
    /\ active = "front"
    /\ col = 4
    /\ front.state.Col = 2
    /\ front.data[0][1].char = 73

\* C25 (as claimed): without an active buffer the tab offset changes
\* nothing at all.
C25_TabOffsetChangesNothing ==
    [][/\ TabMovesCursor
       /\ (TabStep /\ active = "nil")
            => (UNCHANGED decoder /\ ready' = FALSE /\ panicked' = FALSE)]_vars

\* A step that processes a unit of the given kind with a buffer selected.
MidRowStep ==
    /\ active # "nil"
    /\ steps' = steps + 1 /\ ~StepDrops
    /\ IsMidRowPair(Payload(unit'))

TextStep ==
    /\ active # "nil"
    /\ steps' = steps + 1 /\ ~StepDrops
    /\ IsTextPair(Payload(unit'))

\* C26: a mid-row unit decoded with an active buffer sets the style to its
\* 3-bit field and underline to its low bit and leaves the cursor, both
\* buffers with their display states and the selector as they were; only
\* preamble and mid-row units change the attributes, and every cell a text
\* unit writes carries the attributes current at that time.
C26_MidRow ==
    [][/\ MidRowStep
            => /\ style' = (Lo(Payload(unit')) \div 2) % 8
               /\ underline' = (Lo(Payload(unit')) % 2 = 1)
               /\ UNCHANGED <<row, col, front, back, active>>
               /\ ready' = FALSE /\ panicked' = FALSE
       /\ (steps' = steps + 1 /\ ~MidRowStep /\ ~PreambleStep)
            => UNCHANGED <<style, underline>>
       /\ TextStep
            => \A r \in 0 .. Rows - 1 : \A c \in 0 .. Cols - 1 :
                  (/\ ActiveDataNext[r][c] # ActiveData[r][c]
                   /\ ActiveDataNext[r][c].char # 0)
                     => /\ ActiveDataNext[r][c].style = style
                        /\ ActiveDataNext[r][c].underline = underline]_vars

\* "HI" written after mid-row 0x1123: both cells are green and underlined.
C26_Witness ==
    /\ ParityValid(unit)
    /\ Payload(unit) = 18505
    /\ active = "front"
    /\ style = 1 /\ underline
    /\ row = 0 /\ col = 2
    /\ front.data[0][0] = [char |-> 72, style |-> 1, underline |-> TRUE]
    /\ front.data[0][1] = [char |-> 73, style |-> 1, underline |-> TRUE]

\* A step that processes a basic text unit with a buffer selected.
BasicStep ==
    /\ active # "nil"
    /\ steps' = steps + 1
    /\ ParityValid(unit')
    /\ IsBasicPair(Payload(unit'))

\* The cell a glyph is stored as under the current attributes.
CellOf(g) == [char |-> g, style |-> style, underline |-> underline]

\* The active buffer's cells after the glyphs gs were stored from the
\* cursor on, one column each.
WrittenFromCursor(gs) ==
    [r \in 0 .. Rows - 1 |-> [c \in 0 .. Cols - 1 |->
        IF r = row /\ c >= col /\ c < col + Len(gs)
        THEN CellOf(gs[c - col + 1])
        ELSE ActiveData[r][c]]]

\* C27: a basic text unit decoded with an active buffer stores the glyph of
\* its first byte in the cell under the cursor and, exactly when its second
\* byte is in 0x20..0x7F, the glyph of that byte in the next column: one or
\* two cells are written, never none, also when the unit repeats the one
\* before.
C27_BasicText ==
    [][BasicStep
          => \E gs \in {BasicGlyphs(Payload(unit'))} :
                /\ Len(gs) = (IF Lo(Payload(unit')) >= 32 THEN 2 ELSE 1)
                /\ InGrid(row, col) /\ InGrid(row, col + Len(gs) - 1)
                /\ ActiveDataNext = WrittenFromCursor(gs)
                /\ panicked' = FALSE]_vars

\* The same for a cursor that leaves room for the glyphs inside the grid.
C27_BasicTextInGrid ==
    [][(BasicStep /\ row < Rows
          /\ col + Len(BasicGlyphs(Payload(unit'))) <= Cols)
          => \E gs \in {BasicGlyphs(Payload(unit'))} :
                /\ Len(gs) = (IF Lo(Payload(unit')) >= 32 THEN 2 ELSE 1)
                /\ ActiveDataNext = WrittenFromCursor(gs)
                /\ col' = col + Len(gs)
                /\ panicked' = FALSE]_vars

\* The rendering C28 describes, stated without a scan: the rows holding a
\* non-empty cell, the k-th line being the row with k-1 such rows above it
\* (higher index), each row the glyphs of its non-empty cells, the j-th
\* glyph being the cell with j-1 non-empty cells left of it.
FilledCols(rw) == {c \in 0 .. Cols - 1 : rw[c].char # 0}
FilledRows(data) == {r \in 0 .. Rows - 1 : FilledCols(data[r]) # {}}

RowText(rw) ==
    [j \in 1 .. Cardinality(FilledCols(rw)) |->
        rw[CHOOSE c \in FilledCols(rw) :
              Cardinality({d \in FilledCols(rw) : d < c}) = j - 1].char]

LinesTopDown(data) ==
    [k \in 1 .. Cardinality(FilledRows(data)) |->
        RowText(data[CHOOSE r \in FilledRows(data) :
                        Cardinality({q \in FilledRows(data) : q > r})
                           = k - 1])]

\* The lines with a line break between each two.
RECURSIVE BrokenLines(_)
BrokenLines(ls) ==
    IF ls = <<>> THEN <<>>
    ELSE IF Len(ls) = 1 THEN ls[1]
    ELSE ls[1] \o <<10>> \o BrokenLines(Tail(ls))

\* The buffer with every attribute removed.
Plain(b) ==
    [b EXCEPT !.data = [r \in 0 .. Rows - 1 |-> [c \in 0 .. Cols - 1 |->
        [char |-> b.data[r][c].char, style |-> 0, underline |-> FALSE]]]]

\* C28: String() of a buffer is its rows that hold a non-empty cell, from
\* the highest row index down to row 0, each as its non-empty cells in
\* column order, joined by line breaks; the empty buffer gives the empty
\* string, and the attributes do not matter.
C28_StringRendering ==
    /\ String(front) = BrokenLines(LinesTopDown(front.data))
    /\ String(front) = String(Plain(front))
    /\ front.data = EmptyData => String(front) = <<>>

\* "B" on row 14, "A" with a gap before "B" on row 0: the rendering is
\* "B", line break, "AB".
C28_Witness ==
    /\ front.data[14][5].char = 66
    /\ front.data[0][0].char = 65
    /\ front.data[0][31].char = 66
    /\ front.data[0][31].style = 1
    /\ String(front) = <<66, 10, 65, 66>>

\* The payload of the most recently accepted unit of a log of transmitted
\* units (0 when none was accepted): a unit is accepted when its parity is
\* valid, it is not padding, and it is not a control or special-character
\* unit equal to the one accepted before it.
RECURSIVE LastAccepted(_)
LastAccepted(h) ==
    IF h = <<>> THEN 0
    ELSE LET before == LastAccepted(SubSeq(h, 1, Len(h) - 1))
             u == h[Len(h)]
         IN IF /\ ParityValid(u)
               /\ Payload(u) # 0
               /\ ~(/\ IsControlPair(Payload(u)) \/ IsSpecialPair(Payload(u))
                    /\ Payload(u) = before)
            THEN Payload(u)
            ELSE before

\* C29: the last-seen unit is the most recently accepted unit, whatever
\* dropped units came after it; a control or special-character unit equal
\* to it is not ready and changes nothing, whatever was dropped in between;
\* the third and later units of a run of identical control units change
\* nothing.
C29_LastSeenUnit ==
    /\ [](ccData = LastAccepted(hist))
    /\ [][(/\ IsControlPair(Payload(unit')) \/ IsSpecialPair(Payload(unit'))
           /\ Payload(unit') = LastAccepted(hist))
          => (ready' = FALSE /\ panicked' = FALSE /\ UNCHANGED decoder)]_vars
    /\ [][(repeat /\ unit' = unit /\ IsControlPair(Payload(unit')))
          => (ready' = FALSE /\ UNCHANGED decoder)]_vars

\* Roll-up 2, "HI", backspace, padding, backspace: the second backspace
\* comes after a dropped unit and does not act, "H" is still there.
C29_Witness ==
    /\ hist = <<W(eia608_control_roll_up_2), W(18505),
                W(eia608_control_backspace), 32896,
                W(eia608_control_backspace)>>
    /\ ccData = eia608_control_backspace
    /\ col = 1
    /\ front.data[0][0].char = 72
    /\ ~ready

\* A call that returned ready for a parity-valid text unit.
ReadyTextStep ==
    /\ steps' = steps + 1
    /\ ParityValid(unit')
    /\ IsTextPair(Payload(unit'))
    /\ ready'

\* C30: the back buffer's roll-up depth is 0 in every state, and a text
\* unit for which Decode returns ready was written into the front buffer.
C30_BackDepthZero ==
    /\ [](back.state.Rollup = 0)
    /\ [][ReadyTextStep => (active = "front" /\ back' = back)]_vars

\* What holds of the depth: as long as no end of caption was sent, the
\* back buffer's roll-up depth is 0; and every ready text unit went to a
\* selected buffer whose roll-up depth is positive, front or back.
C30_BackDepthZeroBeforeSwap ==
    /\ []((\A i \in 1 .. Len(hist) :
              CommandOf(Payload(hist[i])) # eia608_control_end_of_caption)
          => back.state.Rollup = 0)
    /\ [][ReadyTextStep => (active # "nil" /\ ActiveRollup > 0)]_vars

\* Roll-up 2, end of caption, "A": the swap carried depth 2 into the back
\* buffer, the text went there and the call returned ready.
C30_ReadyInBack ==
    /\ hist = <<W(eia608_control_roll_up_2),
                W(eia608_control_end_of_caption), W(16640)>>
    /\ ready
    /\ active = "back"
    /\ back.state.Rollup = 2
    /\ back.data[0][0].char # 0
    /\ front.data = EmptyData

\* The classifier predicates that hold of a stripped unit.
Classes(cc) ==
    {n \in {"control", "preamble", "midrow", "special", "western", "basic"} :
        \/ n = "control" /\ isControl(cc)
        \/ n = "preamble" /\ isPreamble(cc)
        \/ n = "midrow" /\ isMidRowChange(cc)
        \/ n = "special" /\ isSpecialNA(cc)
        \/ n = "western" /\ isWesternEu(cc)
        \/ n = "basic" /\ isBasicNA(cc)}

\* Decode's dispatch with the predicates evaluated in the opposite order:
\* the text predicates first, the control predicate last.
DispatchReversed(f, cc) ==
    LET g == [f EXCEPT !.ccData = cc]
    IN IF isWesternEu(cc) \/ isSpecialNA(cc) \/ isBasicNA(cc)
       THEN IF g.active = "nil" THEN Ret(g, FALSE)
            ELSE LET h == parseText(g, cc)
                 IN Ret(h, ActiveBuf(h).state.Rollup > 0)
       ELSE IF isMidRowChange(cc)
       THEN IF g.active = "nil" THEN Ret(g, FALSE)
            ELSE Ret(parseMidRowChange(g, cc), FALSE)
       ELSE IF isPreamble(cc)
       THEN IF g.active = "nil" THEN Ret(g, FALSE)
            ELSE Ret(parsePreamble(g, cc), FALSE)
       ELSE IF isControl(cc) THEN parseControl(g, cc)
       ELSE Ret(g, FALSE)

\* C31: at most one of the six classifier predicates holds of any unit in
\* 0..0x7F7F, and every unit Decode dispatches has the outcome the
\* opposite order of evaluation gives.
C31_ClassifiersExclusive ==
    /\ [](steps = 0 =>
            \A u \in 0 .. 32639 : Cardinality(Classes(u)) <= 1)
    /\ [](unit # NoUnit => Cardinality(Classes(StripParity(unit))) <= 1)
    /\ [][(steps' = steps + 1 /\ ~StepDrops)
          => \E r \in {DispatchReversed(Frame, StripParity(unit'))} :
                /\ <<underline', style', row', col', ccData', front', back',
                     active'>>
                     = <<r.f.underline, r.f.style, r.f.row, r.f.col,
                         r.f.ccData, r.f.front, r.f.back, r.f.active>>
                /\ ready' = r.ready
                /\ panicked' = r.panic]_vars

\* After roll-up 2, the Western European unit 0x1220 is of one class only
\* and its glyph is in the front buffer.
C31_Witness ==
    /\ hist = <<W(eia608_control_roll_up_2)>>
    /\ steps = 2
    /\ unit = W(4640)
    /\ Classes(StripParity(unit)) = {"western"}
    /\ front.data[0][0].char # 0
    /\ ready


====
